---- MODULE Spec2Model ----
(***************************************************************************)
(* A model of zog (src/zog/main.py): the export of a Zotero collection to  *)
(* a GraphML file.  Strings the program splits or compares segment by      *)
(* segment (collection paths, collection names, relation URIs, item keys)  *)
(* are sequences of one-character strings; opaque strings (collection      *)
(* keys, metadata values, the API key) are TLA+ strings.                   *)
(***************************************************************************)
EXTENDS Naturals, Sequences, FiniteSets

VARIABLES
    pc,                     \* position of main
    args,                   \* the Namespace cli() builds
    zotero_collections,     \* main: zotero.collections()
    sub_collection_key,     \* main: get_collection_key_from_path(...)
    sub_collection_items,   \* main: zotero.collection_items(...)
    graph_relationships,    \* main: create_relationships(...)
    graph_nodes,            \* main: extract_nodes_from_relationships(...)
    graph_nodes_with_data,  \* main: get_node_data(...)
    fetched_items,          \* what zotero.item(node)["data"] returned, per node
    graph,                  \* main: the DiGraph
    output,                 \* the GraphML files written to args.output_path
    store_calls,            \* the operations of the external store called so far
    error                   \* the exception that ended the run, or NoError

vars == << pc, args, zotero_collections, sub_collection_key,
           sub_collection_items, graph_relationships, graph_nodes,
           graph_nodes_with_data, fetched_items, graph, output, store_calls,
           error >>

-----------------------------------------------------------------------------
(* Bounds of the inputs.                                                   *)

MaxPathLen == 3
MaxNameLen == 1
MaxRels == 2

(* Values.                                                                 *)

Sep == "/"
NameChars == {"a", "b"}
PathChars == NameChars \cup {Sep}
CollectionKeys == {"K1", "K2"}
ItemKeys == {<<"X">>, <<"Y">>}
Uris == {<<"h", "/", "Y">>, <<"X">>, <<"h", "/">>}
ApiKeys == {"", "k"}
NoError == "none"
Unset == "unset"

SeqsUpTo(S, n) == UNION {[1..k -> S] : k \in 0..n}

Paths == SeqsUpTo(PathChars, MaxPathLen)
Names == SeqsUpTo(NameChars, MaxNameLen)

DistinctCollectionKeys(cs) ==
    \A i, j \in 1..Len(cs) : cs[i].key = cs[j].key => i = j

Collections == [key : CollectionKeys, data : [name : Names]]
CollectionLists ==
    {cs \in SeqsUpTo(Collections, Cardinality(CollectionKeys)) :
        DistinctCollectionKeys(cs)}


(* Items.  item["data"]["relations"] is absent, a mapping (with or without *)
(* a "dc:relation" entry, which holds a list of URIs or one bare URI       *)
(* string), or a value that is no mapping (a list, None).                  *)

NoDc == [kind |-> "absent", uris |-> << >>]
DcLists == {[kind |-> "list", uris |-> us] : us \in SeqsUpTo(Uris, MaxRels)}
DcStrings == {[kind |-> "str", uris |-> <<u>>] : u \in Uris}
DcValues == {NoDc} \cup DcLists \cup DcStrings

NonMappingKinds == {"list", "none"}
RelationsValues ==
    {[kind |-> "absent", dc |-> NoDc]}
        \cup {[kind |-> "mapping", dc |-> d] : d \in DcValues}
        \cup {[kind |-> k, dc |-> NoDc] : k \in NonMappingKinds}

Items == {[data |-> [key |-> k, relations |-> r]] :
              k \in ItemKeys, r \in RelationsValues}

DistinctItemKeys(items) ==
    \A i, j \in 1..Len(items) : items[i].data.key = items[j].data.key => i = j

ItemLists ==
    {items \in SeqsUpTo(Items, Cardinality(ItemKeys)) :
        DistinctItemKeys(items)}

(* The records zotero.item(node)["data"] returns: any of the three keys    *)
(* the program reads may be missing.                                       *)

ItemFields == {"title", "itemType", "url"}
FieldValue(f) ==
    CASE f = "title" -> "A Title"
      [] f = "itemType" -> "journalArticle"
      [] f = "url" -> "http://example.org"
ItemRecords == {[f \in S |-> FieldValue(f)] : S \in SUBSET ItemFields}

-----------------------------------------------------------------------------
(* The functions of src/zog/main.py.                                       *)

Last(s) == s[Len(s)]

(* str.split(sep): the pieces between the occurrences of sep; a string     *)
(* with no sep, the empty string included, is one piece.                   *)
RECURSIVE split(_, _)
split(s, sep) ==
    IF \A i \in 1..Len(s) : s[i] # sep
    THEN <<s>>
    ELSE LET i == CHOOSE k \in 1..Len(s) :
                      s[k] = sep /\ \A j \in 1..(k - 1) : s[j] # sep
         IN  <<SubSeq(s, 1, i - 1)>> \o split(SubSeq(s, i + 1, Len(s)), sep)

Returned(v) == [raised |-> NoError, value |-> v]
Raised(e, v) == [raised |-> e, value |-> v]

(* The scan of get_named_collection_key from position i on.                *)
RECURSIVE named_collection_key_from(_, _, _)
named_collection_key_from(collections, name, i) ==
    IF i > Len(collections)
    THEN Raised("KeyError", Unset)
    ELSE IF collections[i].data.name = name
         THEN Returned(collections[i].key)
         ELSE named_collection_key_from(collections, name, i + 1)

get_named_collection_key(collections, name) ==
    named_collection_key_from(collections, name, 1)

(* The loop of get_collection_key_from_path over the path parts from i on. *)
RECURSIVE collection_key_from_parts(_, _, _, _)
collection_key_from_parts(collections, parts, i, key) ==
    IF i > Len(parts)
    THEN Returned(key)
    ELSE LET found == get_named_collection_key(collections, parts[i])
         IN  IF found.raised # NoError
             THEN found
             ELSE collection_key_from_parts(collections, parts, i + 1,
                                            found.value)

(* Faulty variants: the key of the first part; the last part alone looked  *)
(* up.                                                                     *)
get_collection_key_from_first_part(collections, collection_path) ==
    get_named_collection_key(collections, split(collection_path, Sep)[1])

get_collection_key_from_last_part(collections, collection_path) ==
    get_named_collection_key(collections,
                             Last(split(collection_path, Sep)))

get_collection_key_from_path(collections, collection_path) ==
    collection_key_from_parts(collections, split(collection_path, Sep), 1, "")

(* Faulty variants: a missing entry read as an empty list, as by           *)
(* .get("relations", {}).get("dc:relation", []); every failed lookup       *)
(* taken for a missing entry, as by "except (KeyError, TypeError)".        *)
relations_lookup_with_default(item_data) ==
    CASE item_data.relations.kind = "absent" ->
            Returned([kind |-> "list", uris |-> << >>])
      [] item_data.relations.kind = "mapping" ->
            IF item_data.relations.dc.kind = "absent"
            THEN Returned([kind |-> "list", uris |-> << >>])
            ELSE Returned(item_data.relations.dc)
      [] OTHER -> Raised("TypeError", NoDc)

relations_lookup_catching_all(item_data) ==
    IF item_data.relations.kind = "mapping"
           /\ item_data.relations.dc.kind # "absent"
    THEN Returned(item_data.relations.dc)
    ELSE Raised("KeyError", NoDc)

(* item_data["relations"]["dc:relation"].                                  *)
relations_lookup(item_data) ==
    CASE item_data.relations.kind = "absent" -> Raised("KeyError", NoDc)
      [] item_data.relations.kind = "mapping" ->
            IF item_data.relations.dc.kind = "absent"
            THEN Raised("KeyError", NoDc)
            ELSE Returned(item_data.relations.dc)
      [] OTHER -> Raised("TypeError", NoDc)

(* What "for item_relation in item_relations" yields: the elements of a    *)
(* list, the characters of a string.                                       *)
iterate(item_relations) ==
    IF item_relations.kind = "list"
    THEN item_relations.uris
    ELSE [i \in 1..Len(item_relations.uris[1]) |->
              <<item_relations.uris[1][i]>>]

(* Faulty variant: split("/")[0]. *)
relation_key_first_segment(item_relation) == split(item_relation, Sep)[1]

relation_key(item_relation) == Last(split(item_relation, Sep))

item_relationships(item_key, item_relations) ==
    LET elems == iterate(item_relations)
    IN  [i \in 1..Len(elems) |-> <<item_key, relation_key(elems[i])>>]

(* The loop of create_relationships over the items from i on.              *)
RECURSIVE relationships_from(_, _, _)
relationships_from(items, i, data) ==
    IF i > Len(items)
    THEN Returned(data)
    ELSE LET item_data == items[i].data
             item_key == item_data.key
             found == relations_lookup(item_data)
         IN  CASE found.raised = "KeyError" ->
                    relationships_from(items, i + 1,
                                       Append(data, <<item_key, item_key>>))
               [] found.raised = NoError ->
                    relationships_from(items, i + 1,
                        data \o item_relationships(item_key, found.value))
               [] OTHER -> Raised(found.raised, << >>)

create_relationships(items) == relationships_from(items, 1, << >>)

(* Faulty variant: the targets are not added. *)
extract_source_nodes(relationships) ==
    {relationships[i][1] : i \in 1..Len(relationships)}

extract_nodes_from_relationships(relationships) ==
    {relationships[i][1] : i \in 1..Len(relationships)}
        \cup {relationships[i][2] : i \in 1..Len(relationships)}

(* defaultdict(lambda: "note", data)[k].                                   *)
defaultdict_get(item, k) == IF k \in DOMAIN item THEN item[k] ELSE "note"

node_datum(item) ==
    LET datum == [item_type |-> "null", title |-> "null", url |-> "null"]
    IN  [datum EXCEPT !.title = defaultdict_get(item, "title"),
                      !.item_type = defaultdict_get(item, "itemType"),
                      !.url = defaultdict_get(item, "url")]

(* get_node_data, given what zotero.item returned for each node.  The list *)
(* is in the iteration order of a set, which the program does not fix: it  *)
(* is kept as the set of its (node, datum) pairs.                          *)
get_node_data(items_of, nodes) == {<<n, node_datum(items_of[n])>> : n \in nodes}

(* networkx.DiGraph: a mapping from node to attributes and a set of edges. *)
NoAttrs == [f \in {} |-> "null"]
EmptyGraph == [nodes |-> [n \in {} |-> NoAttrs], edges |-> {}]

update_attrs(old, new) ==
    [f \in DOMAIN old \cup DOMAIN new |->
        IF f \in DOMAIN new THEN new[f] ELSE old[f]]

add_nodes_from(g, nodes_for_adding) ==
    LET added == {p[1] : p \in nodes_for_adding}
        attrs_of(n) == (CHOOSE p \in nodes_for_adding : p[1] = n)[2]
        old_of(n) == IF n \in DOMAIN g.nodes THEN g.nodes[n] ELSE NoAttrs
    IN  [g EXCEPT !.nodes =
            [n \in DOMAIN g.nodes \cup added |->
                IF n \in added THEN update_attrs(old_of(n), attrs_of(n))
                ELSE g.nodes[n]]]

add_edges_from(g, ebunch_to_add) ==
    LET ends == {ebunch_to_add[i][1] : i \in 1..Len(ebunch_to_add)}
                    \cup {ebunch_to_add[i][2] : i \in 1..Len(ebunch_to_add)}
    IN  [nodes |-> [n \in DOMAIN g.nodes \cup ends |->
                       IF n \in DOMAIN g.nodes THEN g.nodes[n] ELSE NoAttrs],
         edges |-> g.edges \cup
                       {ebunch_to_add[i] : i \in 1..Len(ebunch_to_add)}]

(* Faulty variant: no check of the credentials. *)
cli_unchecked(parsed) == Returned(parsed)

(* The check cli() makes after parse_args.                                 *)
cli(parsed) ==
    IF ~parsed.local /\ parsed.api_key = ""
    THEN Raised("SystemExit", parsed)
    ELSE Returned(parsed)

-----------------------------------------------------------------------------
(* main, one action per statement that calls out of it.  A call of the     *)
(* external store returns one of the given responses or raises.            *)

(* Faulty variant: the graph is written whatever failed, as from a         *)
(* "finally".                                                              *)
AbortAndWrite(e) == pc' = "write" /\ error' = e

(* An exception main does not catch ends the run. *)
Abort(e) == pc' = "exit" /\ error' = e

(* args = cli() *)
Cli ==
    /\ pc = "cli"
    /\ LET parsed == cli(args)
       IN  IF parsed.raised # NoError
           THEN Abort(parsed.raised)
           ELSE pc' = "collections" /\ UNCHANGED error
    /\ UNCHANGED << args, zotero_collections, sub_collection_key,
                    sub_collection_items, graph_relationships, graph_nodes,
                    graph_nodes_with_data, fetched_items, graph, output,
                    store_calls >>

(* graph = DiGraph(); zotero = Zotero(...); zotero.collections() *)
ZoteroCollections(responses) ==
    /\ pc = "collections"
    /\ store_calls' = store_calls \cup {"collections"}
    /\ \/ Abort("HTTPError") /\ UNCHANGED zotero_collections
       \/ \E collections \in responses :
            /\ zotero_collections' = collections
            /\ pc' = "resolve"
            /\ UNCHANGED error
    /\ UNCHANGED << args, sub_collection_key, sub_collection_items,
                    graph_relationships, graph_nodes, graph_nodes_with_data,
                    fetched_items, graph, output >>

(* sub_collection_key = get_collection_key_from_path(...) *)
ResolvePath ==
    /\ pc = "resolve"
    /\ LET found == get_collection_key_from_path(zotero_collections,
                                                 args.collection_path)
       IN  IF found.raised # NoError
           THEN Abort(found.raised) /\ UNCHANGED sub_collection_key
           ELSE /\ sub_collection_key' = found.value
                /\ pc' = "collection_items"
                /\ UNCHANGED error
    /\ UNCHANGED << args, zotero_collections, sub_collection_items,
                    graph_relationships, graph_nodes, graph_nodes_with_data,
                    fetched_items, graph, output, store_calls >>

(* sub_collection_items = zotero.collection_items(sub_collection_key) *)
ZoteroCollectionItems(responses) ==
    /\ pc = "collection_items"
    /\ store_calls' = store_calls \cup {"collection_items"}
    /\ \/ Abort("HTTPError") /\ UNCHANGED sub_collection_items
       \/ \E items \in responses :
            /\ sub_collection_items' = items
            /\ pc' = "relationships"
            /\ UNCHANGED error
    /\ UNCHANGED << args, zotero_collections, sub_collection_key,
                    graph_relationships, graph_nodes, graph_nodes_with_data,
                    fetched_items, graph, output >>

(* graph_relationships = create_relationships(items=sub_collection_items) *)
CreateRelationships ==
    /\ pc = "relationships"
    /\ LET made == create_relationships(sub_collection_items)
       IN  IF made.raised # NoError
           THEN Abort(made.raised) /\ UNCHANGED graph_relationships
           ELSE /\ graph_relationships' = made.value
                /\ pc' = "nodes"
                /\ UNCHANGED error
    /\ UNCHANGED << args, zotero_collections, sub_collection_key,
                    sub_collection_items, graph_nodes, graph_nodes_with_data,
                    fetched_items, graph, output, store_calls >>

(* graph_nodes = extract_nodes_from_relationships(graph_relationships) *)
ExtractNodes ==
    /\ pc = "nodes"
    /\ graph_nodes' = extract_nodes_from_relationships(graph_relationships)
    /\ pc' = "node_data"
    /\ UNCHANGED << args, zotero_collections, sub_collection_key,
                    sub_collection_items, graph_relationships,
                    graph_nodes_with_data, fetched_items, graph, output,
                    store_calls, error >>

(* graph_nodes_with_data = get_node_data(zotero, graph_nodes): one         *)
(* zotero.item call per node, any of which may raise.                      *)
GetNodeData(responses) ==
    /\ pc = "node_data"
    /\ store_calls' = IF graph_nodes = {} THEN store_calls
                      ELSE store_calls \cup {"item"}
    /\ \/ /\ graph_nodes # {}
          /\ Abort("HTTPError")
          /\ UNCHANGED << graph_nodes_with_data, fetched_items >>
       \/ \E items_of \in [graph_nodes -> responses] :
            /\ fetched_items' = items_of
            /\ graph_nodes_with_data' = get_node_data(items_of, graph_nodes)
            /\ pc' = "assemble"
            /\ UNCHANGED error
    /\ UNCHANGED << args, zotero_collections, sub_collection_key,
                    sub_collection_items, graph_relationships, graph_nodes,
                    graph, output >>

(* graph.add_nodes_from(graph_nodes_with_data);                            *)
(* graph.add_edges_from(graph_relationships)                               *)
AssembleGraph ==
    /\ pc = "assemble"
    /\ graph' = add_edges_from(add_nodes_from(graph, graph_nodes_with_data),
                               graph_relationships)
    /\ pc' = "write"
    /\ UNCHANGED << args, zotero_collections, sub_collection_key,
                    sub_collection_items, graph_relationships, graph_nodes,
                    graph_nodes_with_data, fetched_items, output, store_calls,
                    error >>

(* nx.write_graphml(graph, args.output_path.resolve(), prettyprint=True):  *)
(* the file is written, or cannot be opened (no parent directory).         *)
WriteGraphml ==
    /\ pc = "write"
    /\ \/ Abort("OSError") /\ UNCHANGED output
       \/ /\ output' = Append(output, graph)
          /\ pc' = "done"
          /\ UNCHANGED error
    /\ UNCHANGED << args, zotero_collections, sub_collection_key,
                    sub_collection_items, graph_relationships, graph_nodes,
                    graph_nodes_with_data, fetched_items, graph, store_calls >>

-----------------------------------------------------------------------------
(* The specifications.                                                     *)

Arguments == [local : BOOLEAN, api_key : ApiKeys, collection_path : Paths]

(* The responses of the external store in a run of main. *)
StoreRecords == {[f \in S |-> FieldValue(f)] : S \in {ItemFields, {"itemType"}}}
StoreItemLists ==
    LET item(k, r) == [data |-> [key |-> k, relations |-> r]]
        absent == [kind |-> "absent", dc |-> NoDc]
        mapping(d) == [kind |-> "mapping", dc |-> d]
        list(us) == [kind |-> "list", uris |-> us]
        str(u) == [kind |-> "str", uris |-> <<u>>]
    IN  { << >>,
          << item(<<"X">>, mapping(list(<< <<"h", "/", "Y">> >>))),
             item(<<"Y">>, absent) >>,
          << item(<<"X">>, mapping(NoDc)) >>,
          << item(<<"X">>, mapping(list(<< >>))),
             item(<<"Y">>, mapping(list(<< <<"h", "/", "Y">>, <<"X">> >>))) >>,
          << item(<<"Y">>, mapping(str(<<"h", "/">>))) >>,
          << item(<<"X">>, absent),
             item(<<"Y">>, [kind |-> "none", dc |-> NoDc]) >> }

Fresh ==
    /\ graph_relationships = << >>
    /\ graph_nodes = {}
    /\ graph_nodes_with_data = {}
    /\ fetched_items = << >>
    /\ graph = EmptyGraph
    /\ output = << >>
    /\ error = NoError

(* A run of main. *)
Init ==
    /\ pc = "cli"
    /\ args \in Arguments
    /\ zotero_collections = << >>
    /\ sub_collection_key = Unset
    /\ sub_collection_items = << >>
    /\ store_calls = {}
    /\ Fresh

Next ==
    \/ Cli
    \/ ZoteroCollections(CollectionLists)
    \/ ResolvePath
    \/ ZoteroCollectionItems(StoreItemLists)
    \/ CreateRelationships
    \/ ExtractNodes
    \/ GetNodeData(StoreRecords)
    \/ AssembleGraph
    \/ WriteGraphml

Spec == Init /\ [][Next]_vars

(* create_relationships and what main does with its result, on every item *)
(* list: main at line 270, after a run that resolved the path.             *)
InitRelationships ==
    /\ pc = "relationships"
    /\ args = [local |-> TRUE, api_key |-> "", collection_path |-> <<"a">>]
    /\ zotero_collections = << [key |-> "K1", data |-> [name |-> <<"a">>]] >>
    /\ sub_collection_key = "K1"
    /\ sub_collection_items \in ItemLists
    /\ store_calls = {"collections", "collection_items"}
    /\ Fresh

NextRelationships ==
    \/ CreateRelationships
    \/ ExtractNodes
    \/ GetNodeData(StoreRecords)
    \/ AssembleGraph

SpecRelationships == InitRelationships /\ [][NextRelationships]_vars

(* get_node_data on every record the store can return for a node: main at *)
(* line 270, with the item lists of a run of main.                         *)
InitNodeData ==
    /\ pc = "relationships"
    /\ args = [local |-> TRUE, api_key |-> "", collection_path |-> <<"a">>]
    /\ zotero_collections = << [key |-> "K1", data |-> [name |-> <<"a">>]] >>
    /\ sub_collection_key = "K1"
    /\ sub_collection_items \in StoreItemLists
    /\ store_calls = {"collections", "collection_items"}
    /\ Fresh

NextNodeData ==
    \/ CreateRelationships
    \/ ExtractNodes
    \/ GetNodeData(ItemRecords)

SpecNodeData == InitNodeData /\ [][NextNodeData]_vars

-----------------------------------------------------------------------------
(* What the properties speak of.                                           *)

Parts == split(args.collection_path, Sep)
NamesOf(collections) ==
    {collections[i].data.name : i \in 1..Len(collections)}
AllPartsNamed ==
    \A i \in 1..Len(Parts) : Parts[i] \in NamesOf(zotero_collections)

(* get_collection_key_from_path has returned or raised. *)
PathResolved == sub_collection_key # Unset \/ error = "KeyError"

(* create_relationships has returned; has returned or raised. *)
RelationshipsMade ==
    \/ pc \in {"nodes", "node_data", "assemble", "write", "done"}
    \/ pc = "exit" /\ "item" \in store_calls
    \/ pc = "exit" /\ error = "OSError"
RelationshipsDone == RelationshipsMade \/ error = "TypeError"

(* get_node_data has returned; the graph is assembled. *)
NodeDataMade == pc \in {"assemble", "write", "done"} \/ error = "OSError"
GraphAssembled == pc \in {"write", "done"} \/ error = "OSError"

ItemsLackingRelations ==
    {i \in 1..Len(sub_collection_items) :
        sub_collection_items[i].data.relations.kind = "absent"}
ItemsWithUriList ==
    {i \in 1..Len(sub_collection_items) :
        /\ sub_collection_items[i].data.relations.kind = "mapping"
        /\ sub_collection_items[i].data.relations.dc.kind = "list"}
ItemsLackingDcRelation ==
    {i \in 1..Len(sub_collection_items) :
        /\ sub_collection_items[i].data.relations.kind = "mapping"
        /\ sub_collection_items[i].data.relations.dc.kind = "absent"}
ItemsWithBareString ==
    {i \in 1..Len(sub_collection_items) :
        /\ sub_collection_items[i].data.relations.kind = "mapping"
        /\ sub_collection_items[i].data.relations.dc.kind = "str"}
ItemsNotAMapping ==
    {i \in 1..Len(sub_collection_items) :
        sub_collection_items[i].data.relations.kind \in NonMappingKinds}

EdgesFrom(item_key) ==
    SelectSeq(graph_relationships, LAMBDA e : e[1] = item_key)

Endpoints ==
    UNION {{graph_relationships[i][1], graph_relationships[i][2]} :
               i \in 1..Len(graph_relationships)}

(* The part of a URI after its last "/", the whole URI when it has none. *)
FinalSegment(uri) ==
    LET slashes == {k \in 1..Len(uri) : uri[k] = Sep}
        after == IF slashes = {} THEN 0
                 ELSE CHOOSE k \in slashes : \A j \in slashes : j <= k
    IN  SubSeq(uri, after + 1, Len(uri))

SelfLoopOnly(item) ==
    EdgesFrom(item.data.key) = << <<item.data.key, item.data.key>> >>

-----------------------------------------------------------------------------
(* C1: when every "/"-separated part of the path is the name of some       *)
(* collection of the list, get_collection_key_from_path returns, and what  *)
(* it returns is the key of the first collection of the whole flat list    *)
(* whose name is the last part.                                            *)
C1_LastSegmentKey ==
    (PathResolved /\ AllPartsNamed) =>
        /\ error # "KeyError"
        /\ \E i \in 1..Len(zotero_collections) :
              /\ zotero_collections[i].data.name = Last(Parts)
              /\ sub_collection_key = zotero_collections[i].key
              /\ \A j \in 1..(i - 1) :
                    zotero_collections[j].data.name # Last(Parts)

(* A path of two parts with different names, resolved to the key of the    *)
(* second collection of the list.                                          *)
C1_Witness ==
    /\ Len(Parts) = 2
    /\ Parts[1] # Parts[2]
    /\ Len(zotero_collections) = 2
    /\ zotero_collections[1].data.name = Parts[1]
    /\ zotero_collections[2].data.name = Parts[2]
    /\ sub_collection_key = zotero_collections[2].key

(* C2: when any part of the path, empty parts included, names no           *)
(* collection of the list, get_collection_key_from_path raises KeyError    *)
(* and no key is returned, also when the last part names a collection.     *)
C2_MissingSegmentRaises ==
    (PathResolved /\ ~AllPartsNamed) =>
        /\ error = "KeyError"
        /\ pc = "exit"
        /\ sub_collection_key = Unset

(* A KeyError on a path whose last part names a collection and whose first *)
(* part is empty and names none.                                           *)
C2_Witness ==
    /\ error = "KeyError"
    /\ Len(Parts) >= 2
    /\ Parts[1] = << >>
    /\ Last(Parts) \in NamesOf(zotero_collections)
    /\ ~AllPartsNamed

(* C3: when create_relationships returns, an item with no relations field  *)
(* has contributed exactly one edge, the self-loop (key, key).             *)
C3_SelfLoopWithoutRelations ==
    RelationshipsMade =>
        \A i \in ItemsLackingRelations :
            SelfLoopOnly(sub_collection_items[i])

(* Two items, the second without relations, and the edges made. *)
C3_Witness ==
    /\ RelationshipsMade
    /\ Len(sub_collection_items) = 2
    /\ 2 \in ItemsLackingRelations
    /\ 1 \in ItemsWithUriList
    /\ Len(graph_relationships) = 3

(* C4: when create_relationships returns, an item whose "dc:relation" is a *)
(* list of URIs has contributed, in the order of the list, one edge        *)
(* (key, final segment of the URI) per URI and nothing else.               *)
C4_EdgePerUri ==
    RelationshipsMade =>
        \A i \in ItemsWithUriList :
            LET item_data == sub_collection_items[i].data
                uris == item_data.relations.dc.uris
            IN  EdgesFrom(item_data.key) =
                    [j \in 1..Len(uris) |->
                        <<item_data.key, FinalSegment(uris[j])>>]

(* An item with two URIs of different final segments, neither its own key. *)
C4_Witness ==
    /\ RelationshipsMade
    /\ \E i \in ItemsWithUriList :
          LET item_data == sub_collection_items[i].data
              uris == item_data.relations.dc.uris
          IN  /\ Len(uris) = 2
              /\ Len(uris[1]) = 3
              /\ FinalSegment(uris[1]) # FinalSegment(uris[2])
              /\ FinalSegment(uris[1]) # item_data.key
              /\ FinalSegment(uris[2]) # item_data.key
              /\ Len(EdgesFrom(item_data.key)) = 2

(* C5: in the assembled graph the nodes are exactly the endpoints of the   *)
(* relationships, each with the one metadata record get_node_data made for *)
(* it, and the edges are the relationships.                                *)
C5_NodesAreEndpoints ==
    GraphAssembled =>
        /\ DOMAIN graph.nodes = Endpoints
        /\ {p[1] : p \in graph_nodes_with_data} = Endpoints
        /\ \A n \in Endpoints :
              /\ Cardinality({p \in graph_nodes_with_data : p[1] = n}) = 1
              /\ <<n, graph.nodes[n]>> \in graph_nodes_with_data
              /\ DOMAIN graph.nodes[n] = {"item_type", "title", "url"}
        /\ graph.edges =
              {graph_relationships[i] : i \in 1..Len(graph_relationships)}

(* A graph with a node that is only the target of an edge. *)
C5_Witness ==
    /\ GraphAssembled
    /\ \E n \in DOMAIN graph.nodes :
          /\ \A i \in 1..Len(graph_relationships) :
                graph_relationships[i][1] # n
          /\ \E i \in 1..Len(graph_relationships) :
                graph_relationships[i][2] = n

(* C6: when create_relationships returns, the key of every item of the     *)
(* list is an endpoint of some edge.                                       *)
C6_EveryItemIsEndpoint ==
    RelationshipsMade =>
        \A i \in 1..Len(sub_collection_items) :
            sub_collection_items[i].data.key \in Endpoints

(* C7: every record of get_node_data has the three fields, each holding    *)
(* the fetched value when the fetched record has it and "null" when not.   *)
C7_NullWhenAbsent ==
    NodeDataMade =>
        \A p \in graph_nodes_with_data :
            LET item == fetched_items[p[1]]
                field(k) == IF k \in DOMAIN item THEN item[k] ELSE "null"
            IN  /\ DOMAIN p[2] = {"item_type", "title", "url"}
                /\ p[2].title = field("title")
                /\ p[2].item_type = field("itemType")
                /\ p[2].url = field("url")

(* C8: a run without --local and with an empty --api-key never leaves      *)
(* cli() but by the usage error, calls no operation of the store and       *)
(* writes no output.                                                       *)
C8_UsageErrorBeforeStore ==
    (~args.local /\ args.api_key = "") =>
        /\ pc \in {"cli", "exit"}
        /\ pc = "exit" => error = "SystemExit"
        /\ store_calls = {}
        /\ output = << >>

(* Such a run, ended. *)
C8_Witness == ~args.local /\ args.api_key = "" /\ pc = "exit"

(* C9: the output is written at most once, and only at the end of a run in *)
(* which argument validation, the path resolution, the item listing and    *)
(* every metadata fetch succeeded; a run that failed has written nothing.  *)
C9_AllOrNothing ==
    /\ Len(output) <= 1
    /\ output # << >> =>
          /\ pc = "done"
          /\ error = NoError
          /\ cli(args).raised = NoError
          /\ {"collections", "collection_items"} \subseteq store_calls
          /\ sub_collection_key # Unset
          /\ AllPartsNamed
          /\ DOMAIN fetched_items = graph_nodes
          /\ {p[1] : p \in graph_nodes_with_data} = graph_nodes
          /\ output[1] = graph
    /\ error # NoError => (pc = "exit" /\ output = << >>)
    /\ pc = "done" => Len(output) = 1

(* A finished run that wrote a graph with nodes and edges. *)
C9_Witness ==
    /\ pc = "done"
    /\ Len(output) = 1
    /\ Cardinality(DOMAIN output[1].nodes) >= 2
    /\ output[1].edges # {}

(* C10, as stated: an item whose relations field is a mapping without      *)
(* "dc:relation", holds a bare string as "dc:relation", or is no mapping,  *)
(* does not make create_relationships raise and contributes exactly the    *)
(* self-loop (key, key).                                                   *)
C10_Original ==
    RelationshipsDone =>
        \A i \in ItemsLackingDcRelation \cup ItemsWithBareString
                    \cup ItemsNotAMapping :
            /\ error # "TypeError"
            /\ SelfLoopOnly(sub_collection_items[i])

(* C10, amended: create_relationships raises TypeError, and returns no     *)
(* edge, exactly when some item's relations field is no mapping; when it   *)
(* returns, an item whose relations mapping has no "dc:relation" has       *)
(* contributed exactly the self-loop, and an item whose "dc:relation" is a *)
(* bare string has contributed one edge per character of the string, to    *)
(* that character, or to the empty key when the character is "/".          *)
C10_MalformedRelations ==
    RelationshipsDone =>
        /\ error = "TypeError" <=> ItemsNotAMapping # {}
        /\ error = "TypeError" => (pc = "exit" /\ graph_relationships = << >>)
        /\ RelationshipsMade =>
              /\ \A i \in ItemsLackingDcRelation :
                    SelfLoopOnly(sub_collection_items[i])
              /\ \A i \in ItemsWithBareString :
                    LET item_data == sub_collection_items[i].data
                        string == item_data.relations.dc.uris[1]
                    IN  EdgesFrom(item_data.key) =
                            [j \in 1..Len(string) |->
                                <<item_data.key,
                                  IF string[j] = Sep THEN << >>
                                  ELSE <<string[j]>> >>]

(* Edges made from a list with an item without "dc:relation" and an item   *)
(* with a bare string.                                                     *)
C10_Witness ==
    /\ RelationshipsMade
    /\ ItemsLackingDcRelation # {}
    /\ ItemsWithBareString # {}
    /\ Len(graph_relationships) = 4

====
